---- MODULE Spec2Model ----
(***************************************************************************)
(* A model of src/pynesweeper.py: class Board (grid generation, move       *)
(* application, win/loss evaluation) and the game loop of main.            *)
(***************************************************************************)
EXTENDS Integers, Sequences, FiniteSets, TLC

\* ------------------------------------------------------------------ bounds
\* Largest side length and number of mines entered in the game (Spec).
MaxSide == 3
MaxMines == 9
\* Spec plays the boards that have at most this many cells without a mine,
\* which is the number of distinct reveals a won game takes.
MaxSafe == 3
\* SpecLive plays the boards that have at most this many cells without a mine.
LiveMaxSafe == 2
\* Largest side length and number of mines entered in SpecGen, which builds
\* the board for every order of the sample.
GenMaxSide == 3
GenMaxMines == 3
\* Largest side length and number of mines entered in SpecDense.
DenseSide == 4
DenseMines == 8

\* ------------------------------------------------------- program constants
MAX_ADJACENCIES == 8
\* The mine value the class docstring documents ("9 being mine").
MINE == 9

\* A string for which str.isdigit() is False ("", "-1", "x").
NonDigit == -1
\* A string for which str.isdigit() is True and int() raises ("²").
NonDecimal == -2
\* The empty input line: user_str[0] raises IndexError.
NoChar == 0

VARIABLES
    pc,         \* position in main: config, draw0, input, reinput, draw, check, done, exit, crash
    entered,    \* main's side_len_str and num_mines_str, as read
    side_len,   \* Board.side_len
    num_mines,  \* Board.num_mines
    num_cells,  \* Board.num_cells
    cells,      \* Board.cells[x][y]
    moves,      \* Board.moves[x][y], the reveal mask
    last_move,  \* Board.last_move
    mines,      \* Board.mines, a list of <<x, y>>
    move_ct,    \* Board.move_ct
    game_over,  \* Board.game_over
    game_end,   \* main's game_end
    banner,     \* what the last draw_board appended to board_str
    board_str,  \* the grid the last draw_board printed, one glyph per cell
    user_str,   \* get_user_input's user_str, the line read last
    fresh       \* whether the last accepted move took the branch of line 104

vars == <<pc, entered, side_len, num_mines, num_cells, cells, moves, last_move, mines,
          move_ct, game_over, game_end, banner, board_str, user_str, fresh>>

\* ------------------------------------------------------------ pure helpers
\* Python's range(a, b).
Range(a, b) == a .. (b - 1)

Idx(n) == Range(0, n)

\* [[v for _ in range(n)] for _ in range(n)]
Grid(n, v) == [x \in Idx(n) |-> [y \in Idx(n) |-> v]]

IsInjective(s) == \A i, j \in DOMAIN s : i # j => s[i] # s[j]

\* random.sample(population, k): every list of k distinct elements, in every order.
RandomSample(population, k) == {s \in [1 .. k -> population] : IsInjective(s)}

RECURSIVE SortedSeq(_)
SortedSeq(S) ==
    IF S = {} THEN <<>>
    ELSE LET m == CHOOSE a \in S : \A b \in S : a <= b
         IN <<m>> \o SortedSeq(S \ {m})

\* The outcomes of random.sample that happen to be in ascending order.
SortedSample(population, k) ==
    {SortedSeq(S) : S \in {T \in SUBSET population : Cardinality(T) = k}}

\* self.cells[x][y] += 1
Incr(c, x, y) == [c EXCEPT ![x][y] = @ + 1]

\* A faulty body of the loop of gen_board: neighbours taken modulo side_len.
MineStepWrap(c, coord, n) ==
    LET x == coord \div n
        y == coord % n
        up == (x + n - 1) % n
        dn == (x + 1) % n
        lf == (y + n - 1) % n
        rt == (y + 1) % n
        c1 == Incr(c, up, y)
        c2 == Incr(c1, up, lf)
        c3 == Incr(c2, up, rt)
        c4 == Incr(c3, dn, y)
        c5 == Incr(c4, dn, lf)
        c6 == Incr(c5, dn, rt)
        c7 == Incr(c6, x, lf)
    IN  Incr(c7, x, rt)

\* The body of the loop of gen_board for one coord (lines 61-83), on cells.
MineStep(c, coord, n) ==
    LET x == coord \div n
        y == coord % n
        x0 == x = 0
        xmax == x = n - 1
        y0 == y = 0
        ymax == y = n - 1
        c1 == IF ~x0 THEN Incr(c, x - 1, y) ELSE c
        c2 == IF ~x0 /\ ~y0 THEN Incr(c1, x - 1, y - 1) ELSE c1
        c3 == IF ~x0 /\ ~ymax THEN Incr(c2, x - 1, y + 1) ELSE c2
        c4 == IF ~xmax THEN Incr(c3, x + 1, y) ELSE c3
        c5 == IF ~xmax /\ ~y0 THEN Incr(c4, x + 1, y - 1) ELSE c4
        c6 == IF ~xmax /\ ~ymax THEN Incr(c5, x + 1, y + 1) ELSE c5
        c7 == IF ~y0 THEN Incr(c6, x, y - 1) ELSE c6
    IN  IF ~ymax THEN Incr(c7, x, y + 1) ELSE c7

\* The first loop of gen_board over coords[i..], on cells.
RECURSIVE CountLoop(_, _, _, _)
CountLoop(c, coords, i, n) ==
    IF i > Len(coords) THEN c
    ELSE CountLoop(MineStep(c, coords[i], n), coords, i + 1, n)

\* self.mines after the first loop: [x, y] appended per coord.
MineList(coords, n) == [i \in 1 .. Len(coords) |-> <<coords[i] \div n, coords[i] % n>>]

\* The second loop of gen_board: each mine's cell is set to MAX_ADJACENCIES.
RECURSIVE MarkLoop(_, _, _)
MarkLoop(c, ms, i) ==
    IF i > Len(ms) THEN c
    ELSE MarkLoop([c EXCEPT ![ms[i][1]][ms[i][2]] = MAX_ADJACENCIES], ms, i + 1)

\* gen_board: self.cells once both loops are done.
gen_board(coords, n) == MarkLoop(CountLoop(Grid(n, 0), coords, 1, n), MineList(coords, n), 1)

\* The population gen_board samples from: range(0, self.num_cells - 1).
Population(ncells) == Range(0, ncells - 1)

\* The lists random.sample may hand to gen_board.
Coords(ncells, k, allOrders) ==
    IF allOrders THEN RandomSample(Population(ncells), k)
    ELSE SortedSample(Population(ncells), k)

\* ------------------------------------------------------------------- Init
Init ==
    /\ pc = "config"
    /\ entered = [side |-> NonDigit, mines |-> NonDigit]
    /\ side_len = 0
    /\ num_mines = 0
    /\ num_cells = 0
    /\ cells = Grid(0, 0)
    /\ moves = Grid(0, FALSE)
    /\ last_move = <<-1, -1>>
    /\ mines = <<>>
    /\ move_ct = 0
    /\ game_over = FALSE
    /\ game_end = FALSE
    /\ banner = ""
    /\ board_str = Grid(0, "")
    /\ user_str = [ch |-> NoChar, rest |-> NonDigit]
    /\ fresh = FALSE

board_vars == <<side_len, num_mines, num_cells, cells, moves, last_move, mines,
                move_ct, game_over, banner, board_str, user_str, fresh>>

\* ------------------------------------------------------------------- main
\* main, lines 184-188: an entry that is not all digits.
ExitNotDigit(maxSide, maxMines) ==
    /\ pc = "config"
    /\ \E s \in {NonDigit} \cup (0 .. maxSide), m \in {NonDigit} \cup (0 .. maxMines) :
          /\ s = NonDigit \/ m = NonDigit
          /\ entered' = [side |-> s, mines |-> m]
    /\ pc' = "exit"
    /\ UNCHANGED <<board_vars, game_end>>

\* A faulty test of line 191: only the side length is tested.
NotPositiveSideOnly(s, m) == s < 1

\* main, line 191: side_len < 1 or num_mines < 1.
NotPositive(s, m) == s < 1 \/ m < 1

\* main, line 194: num_mines >= side_len*side_len.
TooManyMines(s, m) == m >= s * s

\* main, lines 189-193.
ExitNotPositive(maxSide, maxMines) ==
    /\ pc = "config"
    /\ \E s \in 0 .. maxSide, m \in 0 .. maxMines :
          /\ NotPositive(s, m)
          /\ entered' = [side |-> s, mines |-> m]
    /\ pc' = "exit"
    /\ UNCHANGED <<board_vars, game_end>>

\* main, lines 194-196.
ExitTooManyMines(maxSide, maxMines) ==
    /\ pc = "config"
    /\ \E s \in 0 .. maxSide, m \in 0 .. maxMines :
          /\ ~NotPositive(s, m)
          /\ TooManyMines(s, m)
          /\ entered' = [side |-> s, mines |-> m]
    /\ pc' = "exit"
    /\ UNCHANGED <<board_vars, game_end>>

\* Board.__init__ with gen_board, for the sample coords.
NewBoard(s, m, coords) ==
    /\ side_len' = s
    /\ num_mines' = m
    /\ num_cells' = s * s
    /\ game_over' = FALSE
    /\ moves' = Grid(s, FALSE)
    /\ last_move' = <<-1, -1>>
    /\ move_ct' = 0
    /\ mines' = MineList(coords, s)
    /\ cells' = gen_board(coords, s)

\* main, lines 189-198: a valid configuration and game = Board(side_len, num_mines).
Construct(maxSide, maxMines, maxSafe, allOrders) ==
    /\ pc = "config"
    /\ \E s \in 0 .. maxSide, m \in 0 .. maxMines :
          /\ ~NotPositive(s, m)
          /\ ~TooManyMines(s, m)
          /\ s * s - m <= maxSafe
          /\ entered' = [side |-> s, mines |-> m]
          /\ \E coords \in Coords(s * s, m, allOrders) : NewBoard(s, m, coords)
    /\ pc' = "draw0"
    /\ UNCHANGED <<game_end, banner, board_str, user_str, fresh>>

\* ------------------------------------------------------------------ Board
\* The lines a player may type: a first character (none, '@', 'A' up to one
\* past the last row letter, 'a') and the rest (not digits, digits int()
\* refuses, or a number from 0 to one past the last column).
UserInputs(n) ==
    {[ch |-> NoChar, rest |-> NonDigit]}
        \cup [ch : (64 .. (64 + n + 1)) \cup {97},
              rest : {NonDigit, NonDecimal} \cup (0 .. (n + 1))]

\* last_row_letter >= user_str[0] >= 'A'
LetterInRange(u, n) == (n + 64 >= u.ch) /\ (u.ch >= 65)

\* user_str[1:].isdigit()
RestIsDigit(u) == u.rest # NonDigit

\* A faulty test of line 97: the column may be 0.
AcceptsFromZero(u, n) ==
    /\ LetterInRange(u, n)
    /\ RestIsDigit(u)
    /\ u.rest # NonDecimal
    /\ (n >= u.rest) /\ (u.rest >= 0)

\* The test of line 97 holds, so the while loop ends.
Accepts(u, n) ==
    /\ LetterInRange(u, n)
    /\ RestIsDigit(u)
    /\ u.rest # NonDecimal
    /\ (n >= u.rest) /\ (u.rest >= 1)

\* The line raises: user_str[0] of an empty line (lines 96, 97), or int() of
\* digits it refuses, reached only past the letter and isdigit tests.
Raises(u, n) ==
    \/ u.ch = NoChar
    \/ LetterInRange(u, n) /\ RestIsDigit(u) /\ u.rest = NonDecimal

\* Python list indexing: -n .. n-1 are valid, negative indices count from the end.
PyIndexOk(i, n) == -n <= i /\ i < n

PyIndex(i, n) == IF i < 0 THEN i + n ELSE i

\* A faulty line 104-105: no accepted move counts.
CountsMoveNever(isNew) == FALSE

\* A faulty line 104-105: every accepted move counts.
CountsMoveAlways(isNew) == TRUE

\* if not self.moves[x][y]: the move count rises only for a new move.
CountsMove(isNew) == isNew

\* get_user_input, lines 97-101: an invalid line is asked for again.
RejectInput ==
    /\ pc \in {"input", "reinput"}
    /\ \E u \in UserInputs(side_len) :
          /\ ~Raises(u, side_len)
          /\ ~Accepts(u, side_len)
          /\ user_str' = u
    /\ pc' = "reinput"
    /\ UNCHANGED <<entered, side_len, num_mines, num_cells, cells, moves, last_move,
                   mines, move_ct, game_over, game_end, banner, board_str, fresh>>

\* get_user_input, lines 96-97: the line read makes user_str[0] or int() raise.
CrashInput ==
    /\ pc \in {"input", "reinput"}
    /\ \E u \in UserInputs(side_len) :
          /\ Raises(u, side_len)
          /\ user_str' = u
    /\ pc' = "crash"
    /\ UNCHANGED <<entered, side_len, num_mines, num_cells, cells, moves, last_move,
                   mines, move_ct, game_over, game_end, banner, board_str, fresh>>

\* x = ord(user_str[0])-65
Row(u) == u.ch - 65

\* A faulty line 103: the column number is used as the index.
ColNoFencepost(u) == u.rest

\* y = int(user_str[1:])-1
Col(u) == u.rest - 1

\* get_user_input, lines 102-107: a valid line is applied.
AcceptInput ==
    /\ pc \in {"input", "reinput"}
    /\ \E u \in UserInputs(side_len) :
          /\ ~Raises(u, side_len)
          /\ Accepts(u, side_len)
          /\ user_str' = u
          /\ LET x == Row(u)
                 y == Col(u)
             IN  IF PyIndexOk(x, side_len) /\ PyIndexOk(y, side_len)
                 THEN LET i == PyIndex(x, side_len)
                          j == PyIndex(y, side_len)
                          isNew == ~moves[i][j]
                      IN  /\ fresh' = isNew
                          /\ move_ct' = IF CountsMove(isNew) THEN move_ct + 1 ELSE move_ct
                          /\ moves' = [moves EXCEPT ![i][j] = TRUE]
                          /\ last_move' = <<x, y>>
                          /\ pc' = "draw"
                 ELSE /\ pc' = "crash"
                      /\ UNCHANGED <<fresh, move_ct, moves, last_move>>
    /\ UNCHANGED <<entered, side_len, num_mines, num_cells, cells, mines, game_over,
                   game_end, banner, board_str>>

\* A faulty hit_mine: only the mine appended first is compared.
hit_mine_first == Len(mines) >= 1 /\ last_move = mines[1]

\* hit_mine: the last move is one of self.mines.
hit_mine == \E i \in 1 .. Len(mines) : last_move = mines[i]

\* A faulty draw_board: the win test comes first.
DrawnWinFirst ==
    IF move_ct = num_cells - num_mines THEN "YOU WIN"
    ELSE IF last_move # <<-1, -1>> /\ hit_mine THEN "GAME OVER"
    ELSE ""

\* A faulty draw_board: the win test is off by one.
DrawnWinEarly ==
    IF last_move # <<-1, -1>> /\ hit_mine THEN "GAME OVER"
    ELSE IF move_ct = num_cells - num_mines - 1 THEN "YOU WIN"
    ELSE ""

\* draw_board, lines 123-133: the branch taken, by what it appends to board_str.
Drawn ==
    IF last_move # <<-1, -1>> /\ hit_mine THEN "GAME OVER"
    ELSE IF move_ct = num_cells - num_mines THEN "YOU WIN"
    ELSE ""

\* draw_board sets game_over in its two branches and never clears it.
GameOverAfter(drawn) == IF drawn # "" THEN TRUE ELSE game_over

\* str(cell) for a cell value, a single digit.
Str(n) == <<"0", "1", "2", "3", "4", "5", "6", "7", "8", "9">>[n + 1]

\* A faulty get_board_str: the reveal mask is not consulted.
get_board_str_all(c, mv, over) ==
    [x \in DOMAIN c |-> [y \in DOMAIN c[x] |-> Str(c[x][y])]]

\* get_board_str on self.cells = c, self.moves = mv, self.game_over = over: per
\* cell, str(cell) or the placeholder (written "?" here). The row letters and
\* the blanks between cells do not depend on the state and are left out.
get_board_str(c, mv, over) ==
    [x \in DOMAIN c |->
        [y \in DOMAIN c[x] |-> IF over \/ mv[x][y] THEN Str(c[x][y]) ELSE "?"]]

\* board_str.replace(old + " ", new + " "), after the replace that puts a blank
\* behind the last cell of each row: every cell that reads old reads new.
Replace(s, old, new) ==
    [x \in DOMAIN s |-> [y \in DOMAIN s[x] |-> IF s[x][y] = old THEN new ELSE s[x][y]]]

\* draw_board, lines 121-133: the grid it prints. The loss branch calls
\* get_board_str again once game_over is set and turns every 8 into a mine
\* ("*" here); the win branch keeps the string built on entry and turns every
\* placeholder into a flag ("F" here).
BoardStrDrawn(drawn) ==
    IF drawn = "GAME OVER" THEN Replace(get_board_str(cells, moves, TRUE), "8", "*")
    ELSE IF drawn = "YOU WIN" THEN Replace(get_board_str(cells, moves, game_over), "?", "F")
    ELSE get_board_str(cells, moves, game_over)

\* A faulty draw_board: the end-of-game decoration is written into self.cells.
CellsDecorated(drawn) ==
    IF drawn = "GAME OVER"
    THEN [x \in DOMAIN cells |->
            [y \in DOMAIN cells[x] |->
                IF cells[x][y] = MAX_ADJACENCIES THEN MINE ELSE cells[x][y]]]
    ELSE cells

\* draw_board reads self.cells through get_board_str and decorates board_str, a
\* string of its own: self.cells is not assigned.
CellsAfterDraw(drawn) == cells

\* draw_board: line 199 (before the loop) and line 202 (in the loop).
DrawBoard ==
    /\ pc \in {"draw0", "draw"}
    /\ banner' = Drawn
    /\ game_over' = GameOverAfter(Drawn)
    /\ cells' = CellsAfterDraw(Drawn)
    /\ board_str' = BoardStrDrawn(Drawn)
    /\ pc' = IF pc = "draw0" THEN "input" ELSE "check"
    /\ UNCHANGED <<entered, side_len, num_mines, num_cells, moves, last_move,
                   mines, move_ct, game_end, user_str, fresh>>

\* A faulty check_state: the flag is never reported.
check_state_never == FALSE

\* check_state
check_state == game_over

\* A faulty line 203: check_state's result is not assigned to game_end.
CheckStateUnassigned ==
    /\ pc = "check"
    /\ game_end' = game_end
    /\ pc' = IF game_end' THEN "done" ELSE "input"
    /\ UNCHANGED <<entered, board_vars>>

\* main, lines 203 and 200: game_end = game.check_state(), then the loop test.
CheckState ==
    /\ pc = "check"
    /\ game_end' = check_state
    /\ pc' = IF game_end' THEN "done" ELSE "input"
    /\ UNCHANGED <<entered, board_vars>>

\* --------------------------------------------------------- specifications
\* main: configuration, construction, the first draw and the game loop. The
\* game is played on the ascending outcomes of the sample: the order of
\* self.mines changes neither cells (the increments commute) nor hit_mine (a
\* membership test); SpecGen builds the board for every order.
Next ==
    \/ ExitNotDigit(MaxSide, MaxMines)
    \/ ExitNotPositive(MaxSide, MaxMines)
    \/ ExitTooManyMines(MaxSide, MaxMines)
    \/ Construct(MaxSide, MaxMines, MaxSafe, FALSE)
    \/ DrawBoard
    \/ RejectInput
    \/ CrashInput
    \/ AcceptInput
    \/ CheckState

Spec == Init /\ [][Next]_vars

\* get_user_input applies a line that names an unrevealed cell.
AcceptFresh == AcceptInput /\ fresh'

\* main runs on without pause (draw_board and check_state follow
\* get_user_input), and the player, whenever asked again and again, sooner or
\* later names a cell that is not yet revealed.
NextLive ==
    \/ ExitNotDigit(MaxSide, MaxMines)
    \/ ExitNotPositive(MaxSide, MaxMines)
    \/ ExitTooManyMines(MaxSide, MaxMines)
    \/ Construct(MaxSide, MaxMines, LiveMaxSafe, FALSE)
    \/ DrawBoard
    \/ RejectInput
    \/ CrashInput
    \/ AcceptInput
    \/ CheckState

SpecLive ==
    /\ Init
    /\ [][NextLive]_vars
    /\ WF_vars(DrawBoard)
    /\ WF_vars(CheckState)
    /\ SF_vars(AcceptFresh)

\* ------------------------------------------------------ construction only
NextGen ==
    \/ ExitNotDigit(GenMaxSide, GenMaxMines)
    \/ ExitNotPositive(GenMaxSide, GenMaxMines)
    \/ ExitTooManyMines(GenMaxSide, GenMaxMines)
    \/ Construct(GenMaxSide, GenMaxMines, GenMaxSide * GenMaxSide, TRUE)

SpecGen == Init /\ [][NextGen]_vars

NextDense ==
    \/ ExitNotDigit(DenseSide, DenseMines)
    \/ ExitNotPositive(DenseSide, DenseMines)
    \/ ExitTooManyMines(DenseSide, DenseMines)
    \/ Construct(DenseSide, DenseMines, DenseSide * DenseSide, FALSE)

SpecDense == Init /\ [][NextDense]_vars

\* ---------------------------------------------------- notions of the claims
\* A Board exists: construction is done.
Constructed == pc \notin {"config", "exit"}

AllCells == Idx(side_len) \X Idx(side_len)

IsMine(p) == \E i \in DOMAIN mines : mines[i] = p

MineSet == {p \in AllCells : IsMine(p)}

SafeSet == AllCells \ MineSet

Abs(i) == IF i < 0 THEN -i ELSE i

\* The in-bounds neighbours of p: at most 8, none across an edge.
Neighbours(p) ==
    {q \in AllCells : q # p /\ Abs(q[1] - p[1]) <= 1 /\ Abs(q[2] - p[2]) <= 1}

Value(p) == cells[p[1]][p[2]]

\* ------------------------------------------------------ construction claims
\* C1: after construction every non-mine cell stores the number of mines among
\* its in-bounds neighbours; border and corner cells count only in-bounds
\* neighbours and nothing wraps around an edge.
C1_AdjacencyCounts ==
    Constructed =>
        \A p \in SafeSet : Value(p) = Cardinality(Neighbours(p) \cap MineSet)

\* C1's case: the 3x3 board with its single mine at (0,0) reads 1 at (0,1),
\* (1,0), (1,1) and 0 at every other non-mine cell.
C1_Witness ==
    /\ Constructed
    /\ side_len = 3
    /\ mines = << <<0, 0>> >>
    /\ \A p \in SafeSet :
          Value(p) = IF p \in {<<0, 1>>, <<1, 0>>, <<1, 1>>} THEN 1 ELSE 0

\* C6: after construction every mine cell stores 9 and every non-mine cell a
\* value in 0..8, so a mine's value is strictly greater than any other cell's.
C6_SentinelNine ==
    Constructed =>
        /\ \A p \in MineSet : Value(p) = MINE
        /\ \A p \in SafeSet : Value(p) \in 0 .. 8
        /\ \A p \in MineSet, q \in SafeSet : Value(p) > Value(q)

\* C7: after construction the mine positions are pairwise distinct and exactly
\* num_mines cells hold the value gen_board gives a mine.
C7_ExactlyNumMines ==
    Constructed =>
        /\ Len(mines) = num_mines
        /\ IsInjective(mines)
        /\ Cardinality({p \in AllCells : Value(p) = MAX_ADJACENCIES}) = num_mines

\* C8: every set of num_mines distinct cells of the grid is the mine set of a
\* board gen_board can produce for this configuration.
C8_EveryPlacement ==
    Constructed =>
        \A S \in {T \in SUBSET AllCells : Cardinality(T) = num_mines} :
            \E coords \in Coords(num_cells, num_mines, TRUE) :
                {MineList(coords, side_len)[i] : i \in 1 .. num_mines} = S

\* ------------------------------------------------------------- game claims
\* The status the last draw_board showed.
Status ==
    IF banner = "GAME OVER" THEN "Lost"
    ELSE IF banner = "YOU WIN" THEN "Won"
    ELSE "InProgress"

\* A move has been accepted and draw_board has run on it.
Evaluated == Constructed /\ pc \notin {"draw0", "draw"} /\ last_move # <<-1, -1>>

RevealedSet == {p \in AllCells : moves[p[1]][p[2]]}

\* The line has a first character and a number behind it.
HasCoords(u) == u.ch # NoChar /\ u.rest >= 0

\* C2: after an accepted move and its draw_board the game is Lost if and only
\* if the last move is on a mine, however many moves came before.
C2_LostIffLastMoveOnMine ==
    Evaluated => (Status = "Lost" <=> last_move \in MineSet)

\* C2's case: a loss on the third move of a game.
C2_Witness ==
    /\ Evaluated
    /\ pc = "done"
    /\ Status = "Lost"
    /\ last_move \in MineSet
    /\ move_ct = 3

\* C3: after each move the status is Lost when the last move is on a mine (even
\* when that move brings the revealed count to side_len^2 - num_mines), Won if
\* and only if it is not on a mine and the revealed count is side_len^2 -
\* num_mines, and InProgress otherwise.
C3_StatusEvaluation ==
    Evaluated =>
        LET full == Cardinality(RevealedSet) = side_len * side_len - num_mines
        IN  Status = IF last_move \in MineSet THEN "Lost"
                     ELSE IF full THEN "Won"
                     ELSE "InProgress"

\* C3's case: a move on a mine that brings the revealed count to
\* side_len^2 - num_mines is a loss.
C3_Witness ==
    /\ Evaluated
    /\ last_move \in MineSet
    /\ Cardinality(RevealedSet) = side_len * side_len - num_mines
    /\ Status = "Lost"

\* C4: in the game loop the game is Won exactly when the revealed cells are
\* the non-mine cells, and it becomes Won on a move that reveals a cell for
\* the first time.
C4_WonIffAllSafeRevealed ==
    Evaluated =>
        /\ Status = "Won" <=> RevealedSet = SafeSet
        /\ Status = "Won" => fresh

\* C4's case: the 2x2 board with one mine, its 3 non-mine cells revealed.
C4_Witness ==
    /\ Evaluated
    /\ side_len = 2
    /\ num_mines = 1
    /\ RevealedSet = SafeSet
    /\ Status = "Won"
    /\ pc = "done"

\* A step of get_user_input that applies a line.
Applied == pc \in {"input", "reinput"} /\ pc' = "draw"

\* C5: a move on a cell that is already revealed is applied, and leaves the
\* reveal mask and the move count as they are; a move on an unrevealed cell
\* sets its entry and raises the move count by 1.
C5_ReRevealIdempotent ==
    [][Applied =>
          LET i == last_move'[1]
              j == last_move'[2]
          IN  IF moves[i][j]
              THEN moves' = moves /\ move_ct' = move_ct
              ELSE moves' = [moves EXCEPT ![i][j] = TRUE] /\ move_ct' = move_ct + 1]_vars

\* C5's case: the one revealed cell has been chosen again, and the move count is 1.
C5_Witness ==
    /\ pc = "draw"
    /\ ~fresh
    /\ move_ct = 1
    /\ RevealedSet = {last_move}

\* The game is over and the status shown is Won or Lost.
Terminal == game_over /\ Status # "InProgress"

\* C9: once the game is Won or Lost it stays so: game_over is never cleared and
\* the status never returns to InProgress.
C9_StatusOneWay == [][Terminal => Terminal']_vars

\* C9's case: the game became terminal and main went on to leave the loop.
C9_Witness == pc = "done" /\ Terminal /\ game_end

\* A step of get_user_input that reads a line.
ReadLine == pc \in {"input", "reinput"} /\ pc' \in {"reinput", "draw", "crash"}

\* C10: a line whose row or column is outside 0 .. side_len-1 is rejected and
\* changes neither the reveal mask, the move count nor the last move; every
\* step that changes one of them applies an in-range row and column.
C10_OutOfRangeRejected ==
    [][/\ (ReadLine /\ HasCoords(user_str')
             /\ <<Row(user_str'), Col(user_str')>> \notin AllCells)
          => (pc' = "reinput" /\ UNCHANGED <<moves, move_ct, last_move>>)
       /\ (Constructed /\ <<moves, move_ct, last_move>>' # <<moves, move_ct, last_move>>)
          => (/\ ReadLine
              /\ last_move' \in AllCells
              /\ last_move' = <<Row(user_str'), Col(user_str')>>)]_vars

\* C10's case: after a first move, the line for row side_len, column 0 has
\* been rejected.
C10_Witness ==
    /\ pc = "reinput"
    /\ move_ct = 1
    /\ Row(user_str) = side_len
    /\ Col(user_str) = 0

\* ------------------------------------------------- claims C11 to C18
\* No Board object exists: every field is as before construction.
NoBoard ==
    /\ side_len = 0 /\ num_mines = 0 /\ num_cells = 0
    /\ cells = Grid(0, 0) /\ moves = Grid(0, FALSE) /\ mines = <<>>
    /\ last_move = <<-1, -1>> /\ move_ct = 0 /\ ~game_over

\* C11: a configuration with side_len < 1, num_mines < 1 or num_mines >=
\* side_len^2 ends the program before any Board is made, so no move is ever
\* accepted for it; every other configuration gets past the checks.
C11_InvalidConfigRejected ==
    pc # "config" =>
        /\ (entered.side < 1 \/ entered.mines < 1
              \/ entered.mines >= entered.side * entered.side) <=> pc = "exit"
        /\ pc = "exit" => NoBoard

\* C11's case: 3 and 9 were entered and the program has exited.
C11_Witness == pc = "exit" /\ entered = [side |-> 3, mines |-> 9] /\ NoBoard

\* C12: from construction until the first accepted move the reveal mask is all
\* false, the move count is 0 and the game is InProgress; the draw_board call
\* made before the loop sets neither Lost nor Won.
C12_FreshBoardInProgress ==
    (Constructed /\ last_move = <<-1, -1>>) =>
        /\ RevealedSet = {}
        /\ move_ct = 0
        /\ ~game_over
        /\ Status = "InProgress"

\* C12's case: the first draw_board has run on a 3x3 board with 8 mines (one
\* reveal away from a win) and the game is InProgress.
C12_Witness ==
    /\ pc = "input"
    /\ last_move = <<-1, -1>>
    /\ side_len = 3
    /\ num_mines = 8
    /\ ~game_over
    /\ Status = "InProgress"

\* The list random.sample handed to gen_board, read back from self.mines.
CoordsOfMines == [i \in 1 .. Len(mines) |-> mines[i][1] * side_len + mines[i][2]]

\* C13: once the Board is constructed no step changes a cell value, the mine
\* list or the board's dimensions.
C13_GridImmutable ==
    [][Constructed => UNCHANGED <<cells, mines, side_len, num_mines, num_cells>>]_vars

\* C13's case: the game was played to a loss and the loop was left; cells is
\* still what gen_board made of the mines.
C13_Witness ==
    /\ pc = "done"
    /\ Status = "Lost"
    /\ move_ct >= 2
    /\ cells = gen_board(CoordsOfMines, side_len)

\* C14: the move count is the number of revealed cells, and a revealed cell
\* stays revealed.
C14_MoveCountIsRevealed ==
    [][/\ Constructed' => move_ct' = Cardinality(RevealedSet')
       /\ Constructed => \A p \in AllCells : moves[p[1]][p[2]] => moves'[p[1]][p[2]]]_vars

\* C14's case: two cells are revealed, the last move chose one of them again,
\* and the move count is 2.
C14_Witness ==
    /\ pc = "draw"
    /\ ~fresh
    /\ Cardinality(RevealedSet) = 2
    /\ move_ct = 2

\* draw_board has printed the board for the current reveal mask.
Shown == Constructed /\ pc \notin {"draw0", "draw"}

\* Grid c holds the values of cells on every revealed cell.
AgreesOnRevealed(c) == \A p \in RevealedSet : c[p[1]][p[2]] = Value(p)

\* The grids gen_board can make for this configuration.
OtherGrids == {gen_board(cs, side_len) : cs \in Coords(num_cells, num_mines, FALSE)}

\* C15: while the game is InProgress the printed board shows the placeholder
\* for every unrevealed cell and str(value) for every revealed one, and any
\* other board of this configuration with the same values on the revealed
\* cells prints the same, whatever its hidden cells hold.
C15_HiddenCellsNotDisclosed ==
    (Shown /\ ~game_over) =>
        /\ \A p \in AllCells :
              board_str[p[1]][p[2]] = IF p \in RevealedSet THEN Str(Value(p)) ELSE "?"
        /\ pc \in {"input", "check"} =>
              \A c \in OtherGrids :
                  AgreesOnRevealed(c) => get_board_str(c, moves, game_over) = board_str

\* C15's case: a game in progress with a revealed cell, and another board that
\* agrees on the revealed cells, differs on a hidden one and prints the same.
C15_Witness ==
    /\ Shown
    /\ pc = "input"
    /\ ~game_over
    /\ RevealedSet # {}
    /\ \E c \in OtherGrids :
          /\ c # cells
          /\ AgreesOnRevealed(c)
          /\ get_board_str(c, moves, game_over) = board_str

\* C16: a line made of the k-th letter (A the 1st) and the number n is applied
\* exactly when 1 <= k <= side_len and 1 <= n <= side_len, and then to cell
\* (k-1, n-1); nothing else is applied, and every cell has its line.
C16_FencepostSafeMapping ==
    [][/\ (ReadLine /\ HasCoords(user_str')) =>
             LET k == user_str'.ch - 64
                 n == user_str'.rest
             IN  /\ pc' = "draw" <=> (1 <= k /\ k <= side_len /\ 1 <= n /\ n <= side_len)
                 /\ pc' = "draw" =>
                       /\ last_move' = <<k - 1, n - 1>>
                       /\ moves'[k - 1][n - 1]
                       /\ \A p \in AllCells \ {<<k - 1, n - 1>>} :
                             moves'[p[1]][p[2]] = moves[p[1]][p[2]]
       /\ (ReadLine /\ pc' = "draw") => HasCoords(user_str')
       /\ pc = "draw0" =>
             \A p \in AllCells :
                 LET u == [ch |-> 65 + p[1], rest |-> p[2] + 1]
                 IN  u \in UserInputs(side_len) /\ Accepts(u, side_len)
                       /\ ~Raises(u, side_len)]_vars

\* C16's case: on a 3x3 board the line C3 has been applied to cell (2,2).
C16_Witness ==
    /\ pc = "draw"
    /\ side_len = 3
    /\ user_str = [ch |-> 67, rest |-> 3]
    /\ last_move = <<2, 2>>
    /\ moves[2][2]

\* The status the spec derives from the reveal mask, the mine set and the
\* last move, whether or not draw_board has evaluated that move yet.
DerivedStatus ==
    IF last_move \in MineSet THEN "Lost"
    ELSE IF SafeSet \subseteq RevealedSet THEN "Won"
    ELSE "InProgress"

\* The move count is below its bound and no mine cell is revealed.
StillOpen ==
    /\ move_ct < num_cells - num_mines
    /\ RevealedSet \cap MineSet = {}

\* C17: in every reachable state of the game loop the move count is at most
\* side_len^2 - num_mines; while the game is not over it is below that and no
\* mine cell is revealed. The game is not over when its derived status is
\* InProgress; so it is whenever the loop asks for a move (game_end is not
\* set), and whenever game_over is not set once draw_board has evaluated the
\* last move.
C17_LoopInvariant ==
    Constructed =>
        /\ move_ct <= num_cells - num_mines
        /\ DerivedStatus = "InProgress" => StillOpen
        /\ pc \in {"input", "reinput"} => (~game_end /\ ~game_over /\ StillOpen)
        /\ (~game_over /\ pc # "draw") => StillOpen

\* C17's case: a game in progress one reveal away from the bound.
C17_Witness ==
    /\ pc = "input"
    /\ ~game_over
    /\ move_ct = 2
    /\ move_ct = num_cells - num_mines - 1
    /\ RevealedSet \cap MineSet = {}

\* C18: once game_over is set the next step leaves the loop and no move is
\* applied any more; and if the player never types a line that raises, a game
\* that has started ends Won or Lost, outside the loop, with at most
\* side_len^2 - num_mines distinct reveals.
C18_Terminates ==
    /\ [][game_over => (pc' = "done" /\ UNCHANGED <<moves, move_ct, last_move>>)]_vars
    /\ ([](pc # "crash")) =>
          ((pc = "draw0") ~> (/\ pc = "done"
                              /\ Terminal
                              /\ move_ct <= num_cells - num_mines))

\* C18's case: a won game of 2 distinct reveals, the loop left.
C18_Witness ==
    /\ pc = "done"
    /\ game_end
    /\ Status = "Won"
    /\ move_ct = 2

====
